---- MODULE Spec2Model ----
(***************************************************************************)
(* Model of the HTTP/1.1 client engine of src/sensor/main.cpp              *)
(* (http::Request::send, http::detail::Socket and the incremental response *)
(* parser).  A byte is a one-character string, a byte sequence a TLA+      *)
(* sequence of bytes.  Time is counted in whole milliseconds.              *)
(***************************************************************************)
EXTENDS Integers, Sequences, FiniteSets, TLC

VARIABLES
    pc,                     \* position of the call inside Request::send
    url,                    \* the argument of Request's constructor
    scheme,                 \* Request::scheme
    domain,                 \* Request::domain
    port,                   \* Request::port
    path,                   \* Request::path
    timeout,                \* timeout.count() of the call, -1 = none
    now,                    \* std::chrono::steady_clock::now(), in ms
    stopTime,               \* local stopTime of Request::send
    blockedTime,            \* ms spent inside select() so far in this call
    endpoint,               \* Socket::endpoint
    openFds,                \* descriptors the OS has open for this process
    socketsOpened,          \* number of successful socket() calls
    netOps,                 \* network primitives invoked so far
    connectResult,          \* outcome of ::connect on the non-blocking socket
    lastWait,               \* the most recent readiness wait of a Socket method
    request,                \* method, headers and body of the call
    requestData,            \* serialized request
    remaining,              \* bytes of requestData still to send
    wire,                   \* bytes handed to ::send and accepted by it
    scenario,               \* the response the peer is going to deliver
    stream,                 \* bytes of that response not yet delivered
    size,                   \* result of the last socket.recv
    responseData,           \* unconsumed received bytes
    response,               \* Response{status, headers, body}
    parsedStatusLine,
    parsedHeaders,
    contentLengthReceived,
    contentLength,
    chunkedResponse,
    expectedChunkSize,
    removeCrlfAfterChunk,
    error,                  \* the exception leaving Request::send, if any
    str,                    \* the argument of urlEncode, bytes as numbers
    encoded,                \* urlEncode's result, bytes as numbers
    platform,               \* the branch of the Socket methods that is compiled
    call,                   \* a Socket method called on its own: what the OS did
    callResult,             \* how that call ended
    screen,                 \* size of the global buffer "screen", -1 = nullptr
    image,                  \* the frame handed to the onNewFrame callback
    fault,                  \* an index used outside the buffer, if there was one
    objects,                \* the Socket objects: alive or not, and their endpoint
    closeCount              \* for each handle opened, the closeSocket calls on it

vars == <<pc, url, scheme, domain, port, path, timeout, now, stopTime, blockedTime, endpoint, openFds,
          socketsOpened, netOps, connectResult, lastWait, request,
          requestData, remaining, wire, scenario, stream, size, responseData, response,
          parsedStatusLine, parsedHeaders, contentLengthReceived,
          contentLength, chunkedResponse, expectedChunkSize,
          removeCrlfAfterChunk, error, str, encoded, platform, call, callResult,
          screen, image, fault, objects, closeCount>>

encodeVars == <<str, encoded>>

socketVars == <<platform, call, callResult>>

imageVars == <<screen, image, fault>>

moveVars == <<objects, closeCount>>

urlVars == <<url, scheme, domain, port, path>>

parserVars == <<responseData, response, parsedStatusLine, parsedHeaders,
                contentLengthReceived, contentLength, chunkedResponse,
                expectedChunkSize, removeCrlfAfterChunk>>

(***************************************************************************)
(* Bounds of the model.                                                    *)
(***************************************************************************)
MaxTimeout == 1     \* caller timeouts range over -1 .. MaxTimeout ms
MaxDelay == 1       \* ms getaddrinfo may take
MaxWait == 1        \* ms after which a socket that becomes ready is ready
MaxNow == 2         \* the clock is not advanced past this instant
MaxWrite == 2       \* ::send accepts up to MaxWrite bytes, or all of them
MaxRead == 3        \* ::recv delivers up to MaxRead bytes, or all there are
MaxUrlLen == 5      \* length of the URLs built from UrlAlphabet
MaxStrLen == 3      \* length of the strings handed to urlEncode
MaxInterrupts == 2  \* times a primitive is interrupted before it gets through
MaxObjects == 3     \* Socket objects that exist at the same time
MaxHandles == 3     \* handles ::socket opens in one behaviour

(***************************************************************************)
(* Byte-sequence helpers.                                                  *)
(***************************************************************************)
Min(S) == CHOOSE m \in S : \A n \in S : m <= n

Drop(s, n) == SubSeq(s, n + 1, Len(s))

Take(s, n) == SubSeq(s, 1, n)

RECURSIVE Concat(_)
Concat(ss) == IF ss = <<>> THEN <<>> ELSE Head(ss) \o Concat(Tail(ss))

\* constexpr std::array<std::uint8_t, 2> crlf = {'\r', '\n'}
crlf == <<"\r", "\n">>

\* a search that stops at the first CR, whatever follows it
SearchCrlf_CrOnly(data) ==
    LET hits == {i \in 1..Len(data) : data[i] = crlf[1]}
    IN IF hits = {} THEN 0 ELSE Min(hits)

\* std::search(responseData.begin(), responseData.end(), begin(crlf), end(crlf)):
\* the index of the first CR LF pair, 0 for "not found" (the end iterator).
SearchCrlf(data) ==
    LET hits == {i \in 1..(Len(data) - 1) : data[i] = crlf[1] /\ data[i + 1] = crlf[2]}
    IN IF hits = {} THEN 0 ELSE Min(hits)

\* std::string::find / std::find of one character from position from; 0 = npos.
Find(s, c, from) ==
    LET hits == {i \in from..Len(s) : s[i] = c}
    IN IF hits = {} THEN 0 ELSE Min(hits)

DecDigits == {"0", "1", "2", "3", "4", "5", "6", "7", "8", "9"}

HexDigits == DecDigits \cup {"a", "b", "c", "d", "e", "f", "A", "B", "C", "D", "E", "F"}

DigitVal(c) ==
    CASE c = "0" -> 0 [] c = "1" -> 1 [] c = "2" -> 2 [] c = "3" -> 3
      [] c = "4" -> 4 [] c = "5" -> 5 [] c = "6" -> 6 [] c = "7" -> 7
      [] c = "8" -> 8 [] c = "9" -> 9
      [] c \in {"a", "A"} -> 10 [] c \in {"b", "B"} -> 11
      [] c \in {"c", "C"} -> 12 [] c \in {"d", "D"} -> 13
      [] c \in {"e", "E"} -> 14 [] c \in {"f", "F"} -> 15

\* the longest prefix of s made of characters of digits
DigitsPrefix(s, digits) ==
    LET bad == {i \in 1..Len(s) : s[i] \notin digits}
    IN IF bad = {} THEN s ELSE Take(s, Min(bad) - 1)

RECURSIVE DigitsValue(_, _)
DigitsValue(s, base) ==
    IF s = <<>> THEN 0
    ELSE DigitsValue(Take(s, Len(s) - 1), base) * base + DigitVal(s[Len(s)])

\* std::stoi(part), std::stoul(headerValue) and std::stoul(line, nullptr, 16):
\* the number written by the leading digits; without a leading digit the
\* library throws std::invalid_argument.  Characters after the digits are
\* ignored, as strtol/strtoul do.
StoNumber(s, base) ==
    LET digits == DigitsPrefix(s, IF base = 16 THEN HexDigits ELSE DecDigits)
    IN IF digits = <<>> THEN [ok |-> FALSE, value |-> 0]
       ELSE [ok |-> TRUE, value |-> DigitsValue(digits, base)]

IsNotWhiteSpace(c) == c # " " /\ c # "\t"

\* ltrim followed by rtrim of the header value
Trim(s) ==
    LET keep == {i \in 1..Len(s) : IsNotWhiteSpace(s[i])}
    IN IF keep = {} THEN <<>>
       ELSE SubSeq(s, Min(keep), CHOOSE m \in keep : \A n \in keep : n <= m)

ContentLengthName == <<"C", "o", "n", "t", "e", "n", "t", "-", "L", "e", "n", "g", "t", "h">>

TransferEncodingName == <<"T", "r", "a", "n", "s", "f", "e", "r", "-",
                          "E", "n", "c", "o", "d", "i", "n", "g">>

ChunkedValue == <<"c", "h", "u", "n", "k", "e", "d">>

(***************************************************************************)
(* The response parser of Request::send (lines 846-1000).  Its locals are  *)
(* gathered in a record p; p.error is the exception thrown, p.complete     *)
(* says that the receive loop is left by a break.                          *)
(***************************************************************************)
NoError == [type |-> "none", what |-> ""]

Error(type, what) == [type |-> type, what |-> what]

\* the tokenizing loop over the status line: the parts between single spaces
RECURSIVE Tokenize(_, _)
Tokenize(line, beginIterator) ==
    IF beginIterator > Len(line) THEN <<>>
    ELSE LET endIterator == Find(line, " ", beginIterator)
         IN IF endIterator = 0
            THEN <<SubSeq(line, beginIterator, Len(line))>>
            ELSE <<SubSeq(line, beginIterator, endIterator - 1)>>
                 \o Tokenize(line, endIterator + 1)

\* RFC 7230, 3.1.2. Status Line
ParseStatusLine(p, line) ==
    LET parts == Tokenize(line, 1)
        q == [p EXCEPT !.parsedStatusLine = TRUE]
    IN IF Len(parts) < 2 THEN q
       ELSE LET n == StoNumber(parts[2], 10)
            IN IF n.ok THEN [q EXCEPT !.response.status = n.value]
               ELSE [q EXCEPT !.error = Error("invalid_argument", "stoi")]

\* a header parser that keeps only the lines it does not interpret
ParseHeaderField_SkipsRecognized(p, line) ==
    LET loumnPosition == Find(line, ":", 1)
    IN IF loumnPosition = 0
       THEN [p EXCEPT !.error = Error("ResponseError", "Invalid header"),
                      !.response.headers = Append(@, line)]
       ELSE LET headerName == Take(line, loumnPosition - 1)
                headerValue == Trim(Drop(line, loumnPosition))
            IN IF headerName = ContentLengthName
               THEN LET n == StoNumber(headerValue, 10)
                    IN IF n.ok
                       THEN [p EXCEPT !.contentLength = n.value,
                                      !.contentLengthReceived = TRUE]
                       ELSE [p EXCEPT !.error = Error("invalid_argument", "stoul")]
               ELSE IF headerName = TransferEncodingName
               THEN IF headerValue = ChunkedValue
                    THEN [p EXCEPT !.chunkedResponse = TRUE]
                    ELSE [p EXCEPT !.error =
                              Error("ResponseError", "Unsupported transfer encoding")]
               ELSE [p EXCEPT !.response.headers = Append(@, line)]

\* a header parser that does not ask for the colon
ParseHeaderField_NoColonCheck(p, line) ==
    LET q == [p EXCEPT !.response.headers = Append(@, line)]
        loumnPosition == Find(line, ":", 1)
        headerName == Take(line, loumnPosition - 1)
        headerValue == Trim(Drop(line, loumnPosition))
    IN IF loumnPosition = 0 THEN q
       ELSE IF headerName = ContentLengthName
       THEN LET n == StoNumber(headerValue, 10)
            IN IF n.ok
               THEN [q EXCEPT !.contentLength = n.value,
                              !.contentLengthReceived = TRUE]
               ELSE [q EXCEPT !.error = Error("invalid_argument", "stoul")]
       ELSE IF headerName = TransferEncodingName
       THEN IF headerValue = ChunkedValue
            THEN [q EXCEPT !.chunkedResponse = TRUE]
            ELSE [q EXCEPT !.error =
                      Error("ResponseError", "Unsupported transfer encoding")]
       ELSE q

\* a header parser that accepts every transfer encoding
ParseHeaderField_AnyEncoding(p, line) ==
    LET q == [p EXCEPT !.response.headers = Append(@, line)]
        loumnPosition == Find(line, ":", 1)
    IN IF loumnPosition = 0
       THEN [q EXCEPT !.error = Error("ResponseError", "Invalid header")]
       ELSE LET headerName == Take(line, loumnPosition - 1)
                headerValue == Trim(Drop(line, loumnPosition))
            IN IF headerName = ContentLengthName
               THEN LET n == StoNumber(headerValue, 10)
                    IN IF n.ok
                       THEN [q EXCEPT !.contentLength = n.value,
                                      !.contentLengthReceived = TRUE]
                       ELSE [q EXCEPT !.error = Error("invalid_argument", "stoul")]
               ELSE IF headerName = TransferEncodingName /\ headerValue = ChunkedValue
               THEN [q EXCEPT !.chunkedResponse = TRUE]
               ELSE q

\* RFC 7230, 3.2. Header Fields
ParseHeaderField(p, line) ==
    LET q == [p EXCEPT !.response.headers = Append(@, line)]
        loumnPosition == Find(line, ":", 1)
    IN IF loumnPosition = 0
       THEN [q EXCEPT !.error = Error("ResponseError", "Invalid header")]
       ELSE LET headerName == Take(line, loumnPosition - 1)
                headerValue == Trim(Drop(line, loumnPosition))
            IN IF headerName = ContentLengthName
               THEN LET n == StoNumber(headerValue, 10)
                    IN IF n.ok
                       THEN [q EXCEPT !.contentLength = n.value,
                                      !.contentLengthReceived = TRUE]
                       ELSE [q EXCEPT !.error = Error("invalid_argument", "stoul")]
               ELSE IF headerName = TransferEncodingName
               THEN IF headerValue = ChunkedValue
                    THEN [q EXCEPT !.chunkedResponse = TRUE]
                    ELSE [q EXCEPT !.error =
                              Error("ResponseError", "Unsupported transfer encoding")]
               ELSE q

\* the loop "if (!parsedHeaders) for (;;)" over the buffered lines
RECURSIVE ParseHeaders(_)
ParseHeaders(p) ==
    LET i == SearchCrlf(p.responseData)
    IN IF i = 0 THEN p
       ELSE LET line == Take(p.responseData, i - 1)
                q == [p EXCEPT !.responseData = Drop(p.responseData, i + 1)]
            IN IF line = <<>> THEN [q EXCEPT !.parsedHeaders = TRUE]
               ELSE LET r == IF ~q.parsedStatusLine
                             THEN ParseStatusLine(q, line)
                             ELSE ParseHeaderField(q, line)
                    IN IF r.error # NoError THEN r ELSE ParseHeaders(r)

\* a chunk reader that forgets the outstanding count of a partly buffered chunk
ConsumeChunkData_ForgetsCount(p) ==
    LET toWrite == IF p.expectedChunkSize <= Len(p.responseData)
                   THEN p.expectedChunkSize ELSE Len(p.responseData)
    IN [p EXCEPT !.response.body = @ \o Take(p.responseData, toWrite),
                 !.responseData = Drop(p.responseData, toWrite),
                 !.expectedChunkSize = 0,
                 !.removeCrlfAfterChunk = TRUE]

\* the branch "expectedChunkSize > 0" up to the test of responseData.empty()
ConsumeChunkData(p) ==
    LET toWrite == IF p.expectedChunkSize <= Len(p.responseData)
                   THEN p.expectedChunkSize ELSE Len(p.responseData)
    IN [p EXCEPT !.response.body = @ \o Take(p.responseData, toWrite),
                 !.responseData = Drop(p.responseData, toWrite),
                 !.expectedChunkSize = p.expectedChunkSize - toWrite,
                 !.removeCrlfAfterChunk =
                     IF p.expectedChunkSize - toWrite = 0 THEN TRUE ELSE @]

\* the loop "for (;;)" of the chunked branch
RECURSIVE ParseChunks(_)
ParseChunks(p) ==
    IF p.expectedChunkSize > 0
    THEN LET q == ConsumeChunkData(p)
         IN IF q.responseData = <<>> THEN q ELSE ParseChunks(q)
    ELSE IF p.removeCrlfAfterChunk /\ Len(p.responseData) < 2 THEN p
    ELSE LET q == IF p.removeCrlfAfterChunk
                  THEN [p EXCEPT !.removeCrlfAfterChunk = FALSE,
                                 !.responseData = Drop(p.responseData, 2)]
                  ELSE p
             i == SearchCrlf(q.responseData)
         IN IF i = 0 THEN q
            ELSE LET line == Take(q.responseData, i - 1)
                     r == [q EXCEPT !.responseData = Drop(q.responseData, i + 1)]
                     n == StoNumber(line, 16)
                 IN IF ~n.ok
                    THEN [r EXCEPT !.error = Error("invalid_argument", "stoul")]
                    ELSE IF n.value = 0
                    THEN [r EXCEPT !.expectedChunkSize = 0, !.complete = TRUE]
                    ELSE ParseChunks([r EXCEPT !.expectedChunkSize = n.value])

\* a body reader that wants more bytes than Content-Length announces
ReadBody_OneMore(p) ==
    LET body == p.response.body \o p.responseData
    IN [p EXCEPT !.response.body = body,
                 !.responseData = <<>>,
                 !.complete = p.contentLengthReceived /\ Len(body) > p.contentLength]

\* a body reader that does not ask whether Content-Length was received
ReadBody_LengthAssumed(p) ==
    LET body == p.response.body \o p.responseData
    IN [p EXCEPT !.response.body = body,
                 !.responseData = <<>>,
                 !.complete = Len(body) >= p.contentLength]

\* the branch of a response that is not chunked
ReadBody(p) ==
    LET body == p.response.body \o p.responseData
    IN [p EXCEPT !.response.body = body,
                 !.responseData = <<>>,
                 !.complete = p.contentLengthReceived /\ Len(body) >= p.contentLength]

\* a receive loop that lets Content-Length decide when it was received
ProcessReceived_LengthFirst(p, bytes) ==
    LET p1 == [p EXCEPT !.responseData = @ \o bytes]
        p2 == IF ~p1.parsedHeaders THEN ParseHeaders(p1) ELSE p1
    IN IF p2.error # NoError \/ ~p2.parsedHeaders THEN p2
       ELSE IF p2.contentLengthReceived THEN ReadBody(p2)
       ELSE IF p2.chunkedResponse THEN ParseChunks(p2)
       ELSE ReadBody(p2)

\* one iteration of the receive loop after a recv of at least one byte
ProcessReceived(p, bytes) ==
    LET p1 == [p EXCEPT !.responseData = @ \o bytes]
        p2 == IF ~p1.parsedHeaders THEN ParseHeaders(p1) ELSE p1
    IN IF p2.error # NoError \/ ~p2.parsedHeaders THEN p2
       ELSE IF p2.chunkedResponse THEN ParseChunks(p2)
       ELSE ReadBody(p2)

(***************************************************************************)
(* The responses the peer delivers.  head is the status line and the       *)
(* header section up to and including the blank line, entity the bytes     *)
(* that follow it, payload the body the entity carries.                    *)
(***************************************************************************)
Line(l) == l \o crlf

StatusLineOk == <<"H", "T", "T", "P", "/", "1", ".", "1", " ", "2", "0", "0", " ", "O", "K">>

StatusLineNotFound == <<"H", "T", "T", "P", "/", "1", ".", "1", " ", "4", "0", "4">>

ContentLength5 == ContentLengthName \o <<":", " ", "5">>

TransferEncodingChunked == TransferEncodingName \o <<":", " ">> \o ChunkedValue

HexOf(n) == <<<<"0", "1", "2", "3", "4", "5", "6", "7", "8", "9",
                "A", "B", "C", "D", "E", "F">>[n + 1]>>

\* RFC 7230, 4.1: each chunk is its size in hexadecimal, CRLF, its payload,
\* CRLF; the last chunk has size 0 and is followed by an empty trailer.
RECURSIVE ChunkedEncoding(_)
ChunkedEncoding(chunks) ==
    IF chunks = <<>> THEN Line(<<"0">>) \o crlf
    ELSE Line(HexOf(Len(Head(chunks)))) \o Line(Head(chunks))
         \o ChunkedEncoding(Tail(chunks))

LengthScenario ==
    [kind |-> "length", status |-> 200, statusLine |-> StatusLineOk, chunks |-> <<>>,
     headers |-> <<ContentLength5>>,
     head |-> Line(StatusLineOk) \o Line(ContentLength5) \o crlf,
     entity |-> <<"H", "e", "l", "l", "o", "!">>,
     payload |-> <<"H", "e", "l", "l", "o">>]

WikipediaChunks == <<(<<"W", "i", "k", "i">>), (<<"p", "e", "d", "i", "a">>)>>

ChunkedScenario ==
    [kind |-> "chunked", status |-> 200, statusLine |-> StatusLineOk,
     chunks |-> WikipediaChunks,
     headers |-> <<TransferEncodingChunked>>,
     head |-> Line(StatusLineOk) \o Line(TransferEncodingChunked) \o crlf,
     entity |-> ChunkedEncoding(WikipediaChunks),
     payload |-> <<"W", "i", "k", "i", "p", "e", "d", "i", "a">>]

CloseScenario ==
    [kind |-> "close", status |-> 404, statusLine |-> StatusLineNotFound,
     chunks |-> <<>>,
     headers |-> <<>>,
     head |-> Line(StatusLineNotFound) \o crlf,
     entity |-> <<"n", "o">>,
     payload |-> <<"n", "o">>]

BadHeaderScenario ==
    [kind |-> "bad", status |-> 200, statusLine |-> StatusLineOk, chunks |-> <<>>,
     headers |-> <<(<<"X">>)>>,
     head |-> Line(StatusLineOk) \o Line(<<"X">>) \o crlf,
     entity |-> <<>>,
     payload |-> <<>>]

NoScenario ==
    [kind |-> "none", status |-> 0, statusLine |-> <<>>, chunks |-> <<>>,
     headers |-> <<>>, head |-> <<>>, entity |-> <<>>, payload |-> <<>>]

TransferEncodingGzip == TransferEncodingName \o <<":", " ", "g", "z", "i", "p", " ">>

GzipScenario ==
    [kind |-> "gzip", status |-> 200, statusLine |-> StatusLineOk, chunks |-> <<>>,
     headers |-> <<TransferEncodingGzip>>,
     head |-> Line(StatusLineOk) \o Line(TransferEncodingGzip) \o crlf,
     entity |-> <<"z", "z">>,
     payload |-> <<>>]

StatusLineVersionOnly == <<"H", "T", "T", "P", "/", "1", ".", "1">>

\* a status line without a status code, then nothing until the peer closes
NoTokenScenario ==
    [kind |-> "notoken", status |-> 0, statusLine |-> StatusLineVersionOnly,
     chunks |-> <<>>,
     headers |-> <<>>,
     head |-> Line(StatusLineVersionOnly) \o crlf,
     entity |-> <<>>,
     payload |-> <<>>]

StatusLineNoContent == <<"H", "T", "T", "P", "/", "1", ".", "1", " ", "2", "0", "4">>

ContentLength0 == ContentLengthName \o <<":", "0">>

\* the same header twice, and an empty body announced by Content-Length
DuplicateScenario ==
    [kind |-> "duplicate", status |-> 204, statusLine |-> StatusLineNoContent,
     chunks |-> <<>>,
     headers |-> <<(<<"A", ":", "1">>), (<<"A", ":", "1">>), ContentLength0>>,
     head |-> Line(StatusLineNoContent) \o Line(<<"A", ":", "1">>)
              \o Line(<<"A", ":", "1">>) \o Line(ContentLength0) \o crlf,
     entity |-> <<>>,
     payload |-> <<>>]

Scenarios == {LengthScenario, ChunkedScenario, CloseScenario, BadHeaderScenario,
              GzipScenario, NoTokenScenario, DuplicateScenario}

\* all bytes of a response, in the order the peer sends them
ContentLength1 == ContentLengthName \o <<":", " ", "1">>

SmallChunks == <<(<<"a", "b">>), (<<"c">>)>>

\* Content-Length and Transfer-Encoding: chunked together, in both orders;
\* the announced length is shorter than the chunked entity
LengthThenChunkedScenario ==
    [kind |-> "both", status |-> 200, statusLine |-> StatusLineOk,
     chunks |-> SmallChunks,
     headers |-> <<ContentLength1, TransferEncodingChunked>>,
     head |-> Line(StatusLineOk) \o Line(ContentLength1)
              \o Line(TransferEncodingChunked) \o crlf,
     entity |-> ChunkedEncoding(SmallChunks),
     payload |-> <<"a", "b", "c">>]

ChunkedThenLengthScenario ==
    [kind |-> "both", status |-> 200, statusLine |-> StatusLineOk,
     chunks |-> SmallChunks,
     headers |-> <<TransferEncodingChunked, ContentLength1>>,
     head |-> Line(StatusLineOk) \o Line(TransferEncodingChunked)
              \o Line(ContentLength1) \o crlf,
     entity |-> ChunkedEncoding(SmallChunks),
     payload |-> <<"a", "b", "c">>]

\* a chunk of two bytes followed by "XY" where its CRLF belongs
BadFramingScenario ==
    [kind |-> "badframing", status |-> 200, statusLine |-> StatusLineOk,
     chunks |-> <<(<<"a", "b">>)>>,
     headers |-> <<TransferEncodingChunked>>,
     head |-> Line(StatusLineOk) \o Line(TransferEncodingChunked) \o crlf,
     entity |-> Line(<<"2">>) \o <<"a", "b", "X", "Y">> \o Line(<<"0">>) \o crlf,
     payload |-> <<"a", "b">>]

\* a response whose first line is empty
EmptyFirstLineScenario ==
    [kind |-> "emptyline", status |-> 0, statusLine |-> <<>>, chunks |-> <<>>,
     headers |-> <<>>,
     head |-> crlf,
     entity |-> Line(StatusLineOk) \o crlf,
     payload |-> <<>>]

ContentLengthX == ContentLengthName \o <<":", " ", "x">>

\* a Content-Length that is not a number
BadLengthScenario ==
    [kind |-> "badnumber", status |-> 200, statusLine |-> StatusLineOk,
     chunks |-> <<>>,
     headers |-> <<ContentLengthX>>,
     head |-> Line(StatusLineOk) \o Line(ContentLengthX) \o crlf,
     entity |-> <<>>,
     payload |-> <<>>]

StatusLineNoNumber == <<"H", "T", "T", "P", "/", "1", ".", "1", " ", "O", "K">>

\* a status token that is not a number
BadStatusScenario ==
    [kind |-> "badnumber", status |-> 0, statusLine |-> StatusLineNoNumber,
     chunks |-> <<>>,
     headers |-> <<>>,
     head |-> Line(StatusLineNoNumber) \o crlf,
     entity |-> <<>>,
     payload |-> <<>>]

\* a chunk-size line that is not hexadecimal
BadChunkSizeScenario ==
    [kind |-> "badnumber", status |-> 200, statusLine |-> StatusLineOk,
     chunks |-> <<>>,
     headers |-> <<TransferEncodingChunked>>,
     head |-> Line(StatusLineOk) \o Line(TransferEncodingChunked) \o crlf,
     entity |-> Line(<<"g">>) \o Line(<<"0">>) \o crlf,
     payload |-> <<>>]

FramingScenarios ==
    {LengthThenChunkedScenario, ChunkedThenLengthScenario, BadFramingScenario,
     EmptyFirstLineScenario, BadLengthScenario, BadStatusScenario,
     BadChunkSizeScenario}

\* what the peer may answer to a request for a path
Answers(p) == IF p = <<"/">> THEN Scenarios ELSE FramingScenarios

Wire(sc) == sc.head \o sc.entity

(***************************************************************************)
(* The requests of the model and their serialization (lines 814-826).      *)
(***************************************************************************)
HttpScheme == <<"h", "t", "t", "p">>

SchemeSeparator == <<":", "/", "/">>

\* std::string::find of a substring; 0 = npos
FindString(s, sub) ==
    LET hits == {i \in 1..(Len(s) - Len(sub) + 1) : SubSeq(s, i, i + Len(sub) - 1) = sub}
    IN IF hits = {} THEN 0 ELSE Min(hits)

\* a constructor that does not remove the fragment part
Request_ctor_KeepsFragment(u) ==
    LET schemeEndPosition == FindString(u, SchemeSeparator)
        rest == IF schemeEndPosition # 0 THEN Drop(u, schemeEndPosition + 2) ELSE u
        pathPosition == Find(rest, "/", 1)
        authority == IF pathPosition = 0 THEN rest ELSE Take(rest, pathPosition - 1)
        portPosition == Find(authority, ":", 1)
    IN [scheme |-> IF schemeEndPosition # 0 THEN Take(u, schemeEndPosition - 1)
                   ELSE HttpScheme,
        domain |-> IF portPosition # 0 THEN Take(authority, portPosition - 1)
                   ELSE authority,
        port |-> IF portPosition # 0 THEN Drop(authority, portPosition)
                 ELSE <<"8", "0">>,
        path |-> IF pathPosition = 0 THEN <<"/">> ELSE Drop(rest, pathPosition - 1)]

\* Request::Request(url, protocol), lines 721-762: the fields it sets
Request_ctor(u) ==
    LET schemeEndPosition == FindString(u, SchemeSeparator)
        rest == IF schemeEndPosition # 0 THEN Drop(u, schemeEndPosition + 2) ELSE u
        fragmentPosition == Find(rest, "#", 1)
        \* remove the fragment part
        noFragment == IF fragmentPosition # 0 THEN Take(rest, fragmentPosition - 1)
                      ELSE rest
        pathPosition == Find(noFragment, "/", 1)
        authority == IF pathPosition = 0 THEN noFragment
                     ELSE Take(noFragment, pathPosition - 1)
        portPosition == Find(authority, ":", 1)
    IN [scheme |-> IF schemeEndPosition # 0 THEN Take(u, schemeEndPosition - 1)
                   ELSE HttpScheme,
        domain |-> IF portPosition # 0 THEN Take(authority, portPosition - 1)
                   ELSE authority,
        port |-> IF portPosition # 0 THEN Drop(authority, portPosition)
                 ELSE <<"8", "0">>,
        path |-> IF pathPosition = 0 THEN <<"/">> ELSE Drop(noFragment, pathPosition - 1)]

\* the URLs of the calls that go to the network
MainUrls ==
    {<<"h", "t", "t", "p", ":", "/", "/", "h", "/">>,
     <<"h", "t", "t", "p", "s", ":", "/", "/", "h", "/">>}

GetRequest == [method |-> <<"G", "E", "T">>, headers |-> <<>>, body |-> <<>>]

Requests == {GetRequest}

RECURSIVE to_string(_)
to_string(n) ==
    IF n < 10 THEN HexOf(n) ELSE to_string(n \div 10) \o HexOf(n % 10)

\* a serialization that puts the Host line before the caller's header lines
Serialize_HostFirst(req) ==
    LET headerData ==
            req.method \o <<" ">> \o req.path
            \o Line(<<" ", "H", "T", "T", "P", "/", "1", ".", "1">>)
            \o Line(<<"H", "o", "s", "t", ":", " ">> \o req.domain)
            \o Concat([k \in 1..Len(req.headers) |-> Line(req.headers[k])])
            \o Line(ContentLengthName \o <<":", " ">> \o to_string(Len(req.body)))
            \o crlf
    IN headerData \o req.body

Serialize(req) ==
    LET headerData ==
            req.method \o <<" ">> \o req.path
            \o Line(<<" ", "H", "T", "T", "P", "/", "1", ".", "1">>)
            \o Concat([k \in 1..Len(req.headers) |-> Line(req.headers[k])])
            \o Line(<<"H", "o", "s", "t", ":", " ">> \o req.domain)
            \o Line(ContentLengthName \o <<":", " ">> \o to_string(Len(req.body)))
            \o crlf
    IN headerData \o req.body

(***************************************************************************)
(* Deadline and Socket.                                                    *)
(***************************************************************************)
\* Request::getRemainingMilliseconds(time), with clock the value of now()
getRemainingMilliseconds(time, clock) ==
    LET remainingTime == time - clock
    IN IF remainingTime # 0 THEN remainingTime ELSE 0

\* the argument "(timeout.count() >= 0) ? getRemainingMilliseconds(stopTime) : -1"
TimeoutArgument(callTimeout, time, clock) ==
    IF callTimeout >= 0 THEN getRemainingMilliseconds(time, clock) ELSE -1

\* Socket::invalid
invalid == -1

\* what happens to the socket while a Socket method waits for it: it becomes
\* ready after some ms, it never becomes ready, or select itself fails
ReadyEvents ==
    [kind : {"ready"}, after : 0..MaxWait]
    \cup [kind : {"never", "error"}, after : {0}]

ReadyNow == [kind |-> "ready", after |-> 0]

\* select(endpoint + 1, ..., (timeout >= 0) ? &selectTimeout : nullptr):
\* count is select's result, elapsed the ms it took; with a null timeout and
\* a socket that never gets ready select does not return.
Select(timeoutArgument, ev) ==
    IF ev.kind = "error" THEN [returns |-> TRUE, count |-> -1, elapsed |-> 0]
    ELSE IF timeoutArgument >= 0
    THEN IF ev.kind = "ready" /\ ev.after <= timeoutArgument
         THEN [returns |-> TRUE, count |-> 1, elapsed |-> ev.after]
         ELSE [returns |-> TRUE, count |-> 0, elapsed |-> timeoutArgument]
    ELSE IF ev.kind = "ready"
         THEN [returns |-> TRUE, count |-> 1, elapsed |-> ev.after]
         ELSE [returns |-> FALSE, count |-> 0, elapsed |-> 0]

Returned(value) == [status |-> "ok", value |-> value, error |-> NoError]

Thrown(type, what) == [status |-> "throw", value |-> 0, error |-> Error(type, what)]

Hangs == [status |-> "hang", value |-> 0, error |-> NoError]

\* the checks every Socket method makes on the result of select
AfterSelect(sel, continuation) ==
    IF ~sel.returns THEN Hangs
    ELSE IF sel.count = -1 THEN Thrown("system_error", "Failed to select socket")
    ELSE IF sel.count = 0 THEN Thrown("ResponseError", "Request timed out")
    ELSE continuation

\* Socket::connect: result is what ::connect reports for the non-blocking
\* socket, soError what getsockopt(SO_ERROR) finds after the wait
Socket_connect(result, sel, soError) ==
    IF result = "ok" THEN Returned(0)
    ELSE IF result = "inprogress"
    THEN AfterSelect(sel,
             IF soError = "getsockopt_fails"
             THEN Thrown("system_error", "Failed to get socket option")
             ELSE IF soError = "pending"
             THEN Thrown("system_error", "Failed to connect")
             ELSE Returned(0))
    ELSE Thrown("system_error", "Failed to connect")

\* Socket::connect as it is compiled with _WIN32 defined (lines 401-432):
\* "inprogress" stands for WSAGetLastError() == WSAEWOULDBLOCK
Socket_connect_WIN32(result, sel, soError) ==
    IF result = "ok" THEN Returned(0)
    ELSE IF result # "inprogress"
    THEN AfterSelect(sel,
             IF soError = "getsockopt_fails"
             THEN Thrown("system_error", "Failed to get socket option")
             ELSE IF soError = "pending"
             THEN Thrown("system_error", "Failed to connect")
             ELSE Returned(0))
    ELSE Thrown("system_error", "Failed to connect")

\* Socket::send: result is what ::send returns, -1 or the bytes written
Socket_send(sel, result) ==
    AfterSelect(sel,
        IF result = -1 THEN Thrown("system_error", "Failed to send data")
        ELSE Returned(result))

\* Socket::recv: result is what ::recv returns, -1 or the bytes read
Socket_recv(sel, result) ==
    AfterSelect(sel,
        IF result = -1 THEN Thrown("system_error", "Failed to read data")
        ELSE Returned(result))

\* the error codes the Socket methods test for
Interrupted(plat) == IF plat = "win32" THEN "WSAEINTR" ELSE "EINTR"

InProgress(plat) == IF plat = "win32" THEN "WSAEWOULDBLOCK" ELSE "EINPROGRESS"

\* what one call of a primitive reports: its return value and errno
Result(value, errno) ==
    [value |-> value, errno |-> errno, returns |-> TRUE, elapsed |-> 0]

\* what one call of select reports
SelectResult(timeoutArgument, ev) ==
    LET sel == Select(timeoutArgument, ev)
    IN [value |-> sel.count, errno |-> IF sel.count = -1 THEN "EBADF" ELSE "none",
        returns |-> sel.returns, elapsed |-> sel.elapsed]

\* the successive results of a primitive that is interrupted k times before
\* it reports final
Attempts(plat, k, final) ==
    [i \in 1..k |-> Result(-1, Interrupted(plat))] \o <<final>>

\* a loop condition that never asks for another attempt
IsInterrupted_Never(plat, result) == FALSE

\* the loop condition "result == -1 && errno == EINTR"
IsInterrupted(plat, result) == result.value = -1 /\ result.errno = Interrupted(plat)

\* "auto result = ::f(...); while (result == -1 && errno == EINTR) result = ::f(...);"
RECURSIVE Retry(_, _)
Retry(plat, attempts) ==
    IF IsInterrupted(plat, Head(attempts))
    THEN Retry(plat, Tail(attempts))
    ELSE Head(attempts)

\* a Socket method from its entry to its return or throw; c says what the OS
\* does: how often the primitive and select are interrupted, what the
\* primitive reports in the end, when the socket gets ready
SocketCall(plat, c) ==
    LET result == Retry(plat, Attempts(plat, c.interruptedPrimitive, c.result))
        count == Retry(plat, Attempts(plat, c.interruptedSelect,
                                      SelectResult(c.timeout, c.ev)))
        sel == [returns |-> count.returns, count |-> count.value,
                elapsed |-> count.elapsed]
        connected == IF result.value = 0 THEN "ok"
                     ELSE IF result.errno = InProgress(plat) THEN "inprogress"
                     ELSE "error"
    IN IF c.op = "connect"
       THEN IF plat = "win32"
            THEN Socket_connect_WIN32(connected, sel, c.soError)
            ELSE Socket_connect(connected, sel, c.soError)
       ELSE IF c.op = "send" THEN Socket_send(sel, result.value)
       ELSE Socket_recv(sel, result.value)

\* a destructor that leaves the descriptor open
Socket_dtor_Leak(fds, ep) == fds

\* Socket::~Socket applied to the descriptors the process has open
Socket_dtor(fds, ep) == IF ep # invalid THEN fds \ {ep} ELSE fds

\* closeSocket(endpoint)
closeSocket(fds, ep) == fds \ {ep}

\* ::socket returns the lowest descriptor that is not open
NewDescriptor(fds) == Min((0..Cardinality(fds)) \ fds)

(***************************************************************************)
(* Request::send as a state machine.  The call is cut at the places where  *)
(* it calls into the operating system: getaddrinfo, socket, connect, each  *)
(* send and each recv.                                                     *)
(***************************************************************************)
\* std::array<std::uint8_t, 4096> tempBuffer
TempBufferSize == 4096

NoWait == [op |-> "none", expired |-> FALSE, socket |-> "ready"]

\* the results ::send and ::recv may give when n bytes can be transferred
Transfers(n, most) == {k \in 1..n : k <= most \/ k = n}

Locals ==
    [responseData |-> responseData, response |-> response,
     parsedStatusLine |-> parsedStatusLine, parsedHeaders |-> parsedHeaders,
     contentLengthReceived |-> contentLengthReceived,
     contentLength |-> contentLength, chunkedResponse |-> chunkedResponse,
     expectedChunkSize |-> expectedChunkSize,
     removeCrlfAfterChunk |-> removeCrlfAfterChunk,
     error |-> NoError, complete |-> FALSE]

SetLocals(p) ==
    /\ responseData' = p.responseData
    /\ response' = p.response
    /\ parsedStatusLine' = p.parsedStatusLine
    /\ parsedHeaders' = p.parsedHeaders
    /\ contentLengthReceived' = p.contentLengthReceived
    /\ contentLength' = p.contentLength
    /\ chunkedResponse' = p.chunkedResponse
    /\ expectedChunkSize' = p.expectedChunkSize
    /\ removeCrlfAfterChunk' = p.removeCrlfAfterChunk

\* the state before the constructor has run and before any call
NoCall == [op |-> "none"]

NoImage == [width |-> 0, height |-> 0, black |-> FALSE]

NoFault == [op |-> "none", index |-> 0]

\* the place of a Socket that is not constructed or was destroyed
NoObject == [live |-> FALSE, endpoint |-> -1]

Idle ==
    /\ encoded = <<>>
    /\ objects = [o \in 1..MaxObjects |-> NoObject]
    /\ closeCount = <<>>
    /\ call = NoCall
    /\ callResult = NoCall
    /\ screen = -1
    /\ image = NoImage
    /\ fault = NoFault
    /\ scheme = <<>>
    /\ domain = <<>>
    /\ port = <<>>
    /\ path = <<>>
    /\ scenario = NoScenario
    /\ stream = <<>>
    /\ now = 0
    /\ stopTime = 0
    /\ blockedTime = 0
    /\ endpoint = invalid
    /\ openFds = {0, 1, 2}
    /\ socketsOpened = 0
    /\ netOps = {}
    /\ connectResult = "none"
    /\ lastWait = NoWait
    /\ requestData = <<>>
    /\ remaining = 0
    /\ wire = <<>>
    /\ size = 0
    /\ responseData = <<>>
    /\ response = [status |-> 0, headers |-> <<>>, body |-> <<>>]
    /\ parsedStatusLine = FALSE
    /\ parsedHeaders = FALSE
    /\ contentLengthReceived = FALSE
    /\ contentLength = 0
    /\ chunkedResponse = FALSE
    /\ expectedChunkSize = 0
    /\ removeCrlfAfterChunk = FALSE
    /\ error = NoError

Init ==
    /\ pc = "new"
    /\ str = <<>>
    /\ url \in MainUrls
    /\ timeout \in -1..MaxTimeout
    /\ request \in Requests
    /\ platform = "posix"
    /\ Idle

\* Request::Request: the URL is taken apart
Construct ==
    /\ pc = "new"
    /\ LET parts == Request_ctor(url)
       IN /\ scheme' = parts.scheme
          /\ domain' = parts.domain
          /\ port' = parts.port
          /\ path' = parts.path
    /\ pc' = "call"
    /\ UNCHANGED <<encodeVars, socketVars, imageVars, moveVars, url, timeout, now, stopTime, blockedTime, endpoint, openFds,
                   socketsOpened, netOps, connectResult, lastWait, request,
                   requestData, remaining, wire, scenario, stream, size,
                   parserVars, error>>

\* a scheme test that only looks at the first four characters
SchemeSupported_Prefix(s) == Take(s, Len(HttpScheme)) = HttpScheme

\* the test "scheme != "http"" of line 801, negated
SchemeSupported(s) == s = HttpScheme

\* lines 799-802: the deadline is fixed and the scheme is checked
Begin ==
    /\ pc = "call"
    /\ stopTime' = now + timeout
    /\ IF ~SchemeSupported(scheme)
       THEN /\ pc' = "failed"
            /\ error' = Error("RequestError", "Only HTTP scheme is supported")
       ELSE /\ pc' = "resolve"
            /\ error' = error
    /\ UNCHANGED <<encodeVars, socketVars, imageVars, moveVars, urlVars, timeout, now, blockedTime, endpoint, openFds,
                   socketsOpened, netOps, connectResult, lastWait, request,
                   requestData, remaining, wire, scenario, stream, size,
                   parserVars>>

\* lines 804-826: getaddrinfo, which takes some time, then the serialization
Resolve ==
    /\ pc = "resolve"
    /\ netOps' = netOps \cup {"getaddrinfo"}
    /\ \E d \in 0..MaxDelay : now' = now + d
    /\ \E found \in BOOLEAN :
         IF found
         THEN /\ requestData' = Serialize([method |-> request.method, path |-> path,
                                            domain |-> domain,
                                            headers |-> request.headers,
                                            body |-> request.body])
              /\ pc' = "socket"
              /\ error' = error
         ELSE /\ requestData' = requestData
              /\ pc' = "failed"
              /\ error' = Error("system_error", "Failed to get address info")
    /\ UNCHANGED <<encodeVars, socketVars, imageVars, moveVars, urlVars, timeout, stopTime, blockedTime, endpoint, openFds,
                   socketsOpened, connectResult, lastWait, request, remaining,
                   wire, scenario, stream, size, parserVars>>

\* line 828 and Socket::Socket (lines 332-358): the descriptor is created and
\* made non-blocking; a failing fcntl closes it again before the throw
SocketCtor ==
    /\ pc = "socket"
    /\ netOps' = netOps \cup {"socket"}
    /\ \E outcome \in {"ok", "socket_fails", "getfl_fails", "setfl_fails"} :
         LET fd == NewDescriptor(openFds)
         IN IF outcome = "socket_fails"
            THEN /\ pc' = "failed"
                 /\ error' = Error("system_error", "Failed to create socket")
                 /\ UNCHANGED <<endpoint, openFds, socketsOpened>>
            ELSE IF outcome = "ok"
            THEN /\ pc' = "connect"
                 /\ endpoint' = fd
                 /\ openFds' = openFds \cup {fd}
                 /\ socketsOpened' = socketsOpened + 1
                 /\ error' = error
            ELSE /\ pc' = "failed"
                 /\ error' = Error("system_error",
                                   IF outcome = "getfl_fails"
                                   THEN "Failed to get socket flags"
                                   ELSE "Failed to set socket flags")
                 /\ endpoint' = endpoint
                 /\ openFds' = closeSocket(openFds \cup {fd}, fd)
                 /\ socketsOpened' = socketsOpened + 1
    /\ UNCHANGED <<encodeVars, socketVars, imageVars, moveVars, urlVars, timeout, now, stopTime, blockedTime, connectResult,
                   lastWait, request, requestData, remaining, wire, scenario,
                   stream, size, parserVars>>

\* the bookkeeping of a readiness wait: the clock, the time spent blocked
\* and the record of the wait
Waited(op, t, ev, sel) ==
    /\ now + sel.elapsed <= MaxNow
    /\ now' = now + sel.elapsed
    /\ blockedTime' = blockedTime + sel.elapsed
    /\ lastWait' = [op |-> op, expired |-> timeout >= 0 /\ now >= stopTime,
                    socket |-> IF ev.kind = "error" THEN "error"
                               ELSE IF ev = ReadyNow THEN "ready"
                               ELSE "notready"]

\* a send loop that stops one byte early
SendLoopContinues_OffByOne(left) == left > 1

\* the test of the loop "while (remaining > 0)"
SendLoopContinues(left) == left > 0

\* lines 831-835: socket.connect with the time that remains
Connect ==
    /\ pc = "connect"
    /\ netOps' = netOps \cup {"connect"}
    /\ \E result \in {"ok", "inprogress", "error"} :
       \E ev \in IF result = "inprogress" THEN ReadyEvents ELSE {ReadyNow} :
       \E soError \in IF result = "inprogress" /\ ev.kind = "ready"
                       THEN {"none", "pending", "getsockopt_fails"} ELSE {"none"} :
         LET t == TimeoutArgument(timeout, stopTime, now)
             sel == Select(t, ev)
             r == Socket_connect(result, sel, soError)
         IN /\ connectResult' = result
            /\ IF result = "inprogress"
               THEN Waited("connect", t, ev, sel)
               ELSE UNCHANGED <<now, blockedTime, lastWait>>
            /\ IF r.status = "hang"
               THEN pc' = "blocked" /\ UNCHANGED <<error, openFds, remaining>>
               ELSE IF r.status = "throw"
               THEN /\ pc' = "failed"
                    /\ error' = r.error
                    /\ openFds' = Socket_dtor(openFds, endpoint)
                    /\ remaining' = remaining
               ELSE /\ pc' = IF SendLoopContinues(Len(requestData))
                             THEN "send" ELSE "recv"
                    /\ remaining' = Len(requestData)
                    /\ UNCHANGED <<error, openFds>>
    /\ UNCHANGED <<encodeVars, socketVars, imageVars, moveVars, urlVars, timeout, stopTime, endpoint, socketsOpened, request,
                   requestData, wire, scenario, stream, size, parserVars>>

\* lines 838-844: one iteration of the send loop
\* a send loop that never advances the pointer into requestData
Offered_FromStart(data, left) == data

\* the bytes "socket.send(sendData, remaining, ...)" offers to the socket:
\* sendData points past what earlier iterations wrote (lines 834, 835, 843)
Offered(data, left) == Drop(data, Len(data) - left)

SendData ==
    /\ pc = "send"
    /\ netOps' = netOps \cup {"send"}
    /\ \E ev \in ReadyEvents :
       \E result \in IF ev.kind = "ready"
                      THEN {-1} \cup Transfers(remaining, MaxWrite) ELSE {-1} :
       \E answer \in Answers(path) :
         LET t == TimeoutArgument(timeout, stopTime, now)
             sel == Select(t, ev)
             r == Socket_send(sel, result)
         IN /\ Waited("send", t, ev, sel)
            /\ IF r.status = "hang"
               THEN pc' = "blocked" /\ UNCHANGED <<error, openFds, remaining, wire>>
               ELSE IF r.status = "throw"
               THEN /\ pc' = "failed"
                    /\ error' = r.error
                    /\ openFds' = Socket_dtor(openFds, endpoint)
                    /\ UNCHANGED <<remaining, wire>>
               ELSE /\ remaining' = remaining - r.value
                    /\ wire' = wire \o Take(Offered(requestData, remaining), r.value)
                    /\ pc' = IF SendLoopContinues(remaining - r.value)
                             THEN "send" ELSE "recv"
                    /\ UNCHANGED <<error, openFds>>
            /\ IF r.status = "ok" /\ remaining - r.value = 0
               THEN scenario' = answer /\ stream' = Wire(answer)
               ELSE scenario' = NoScenario /\ stream' = <<>>
    /\ UNCHANGED <<encodeVars, socketVars, imageVars, moveVars, urlVars, timeout, stopTime, endpoint, socketsOpened,
                   connectResult, request, requestData, size, parserVars>>

\* lines 859-1003: one iteration of the receive loop, and the return
Recv ==
    /\ pc = "recv"
    /\ netOps' = netOps \cup {"recv"}
    /\ \E ev \in ReadyEvents :
       \E result \in IF ev.kind = "ready"
                      THEN {-1, 0} \cup Transfers(IF Len(stream) <= TempBufferSize
                                                  THEN Len(stream)
                                                  ELSE TempBufferSize, MaxRead)
                      ELSE {-1} :
         LET t == TimeoutArgument(timeout, stopTime, now)
             sel == Select(t, ev)
             r == Socket_recv(sel, result)
             p == IF r.status = "ok" /\ r.value > 0
                  THEN ProcessReceived(Locals, Take(stream, r.value))
                  ELSE Locals
         IN /\ Waited("recv", t, ev, sel)
            /\ IF r.status = "hang"
               THEN /\ pc' = "blocked"
                    /\ UNCHANGED <<error, openFds, size, stream, parserVars>>
               ELSE IF r.status = "throw"
               THEN /\ pc' = "failed"
                    /\ error' = r.error
                    /\ openFds' = Socket_dtor(openFds, endpoint)
                    /\ UNCHANGED <<size, stream, parserVars>>
               ELSE /\ size' = r.value
                    /\ stream' = Drop(stream, r.value)
                    /\ SetLocals(p)
                    /\ error' = p.error
                    /\ pc' = IF p.error # NoError THEN "failed"
                             ELSE IF r.value = 0 \/ p.complete THEN "done"
                             ELSE "recv"
                    /\ openFds' = IF p.error = NoError /\ r.value # 0 /\ ~p.complete
                                  THEN openFds
                                  ELSE Socket_dtor(openFds, endpoint)
    /\ UNCHANGED <<encodeVars, socketVars, imageVars, moveVars, urlVars, timeout, stopTime, endpoint, socketsOpened,
                   connectResult, request, requestData, remaining, wire,
                   scenario>>

\* the URLs handed to the constructor alone: every string over UrlAlphabet up
\* to MaxUrlLen characters, and three URLs as they are written in practice
UrlAlphabet == {"h", ":", "/", "#"}

ExampleUrl ==
    <<"h", "t", "t", "p", ":", "/", "/", "h", "o", "s", "t", "/", "a", "/", "b",
      "?", "x", "#", "f", "r", "a", "g">>

PortUrl ==
    <<"h", "t", "t", "p", ":", "/", "/", "h", "o", "s", "t", ":", "8", "0", "8", "0",
      "/", "p">>

UserInfoUrl ==
    <<"h", "t", "t", "p", ":", "/", "/", "u", ":", "p", "@", "h", "o", "s", "t", ":",
      "8", "0", "8", "0", "/">>

Urls ==
    UNION {[1..n -> UrlAlphabet] : n \in 0..MaxUrlLen}
    \cup {ExampleUrl, PortUrl, UserInfoUrl}

InitUrl ==
    /\ pc = "new"
    /\ str = <<>>
    /\ url \in Urls
    /\ timeout = -1
    /\ request = GetRequest
    /\ platform = "posix"
    /\ Idle

NextUrl == Construct

SpecUrl == InitUrl /\ [][NextUrl]_vars

(***************************************************************************)
(* urlEncode (lines 592-636).  Its bytes are numbers 0..255.               *)
(***************************************************************************)
\* hexChars, as character codes
hexChars == <<48, 49, 50, 51, 52, 53, 54, 55, 56, 57, 65, 66, 67, 68, 69, 70>>

\* std::string("%") + hexChars[(*i & 0xF0) >> 4] + hexChars[*i & 0x0F]
Escape(c) == <<37, hexChars[(c \div 16) + 1], hexChars[(c % 16) + 1]>>

\* the escapes of the n bytes from position i on, as far as the string goes
\* ("if (++i == str.end()) break;")
EscapeRun(s, i, n) ==
    LET last == IF i + n - 1 <= Len(s) THEN i + n - 1 ELSE Len(s)
    IN Concat([k \in 1..(last - i + 1) |-> Escape(s[i + k - 1])])

\* the loop of urlEncode from position i on
RECURSIVE urlEncodeFrom(_, _)
urlEncodeFrom(s, i) ==
    IF i > Len(s) THEN <<>>
    ELSE LET cp == s[i] % 256
         IN IF \/ (cp >= 48 /\ cp <= 57)        \* 0-9
               \/ (cp >= 65 /\ cp <= 90)        \* A-Z
               \/ (cp >= 97 /\ cp <= 122)       \* a-z
               \/ cp = 45 \/ cp = 46 \/ cp = 95 \* - . _
            THEN <<cp>> \o urlEncodeFrom(s, i + 1)
            ELSE IF cp <= 127                   \* length = 1
            THEN Escape(cp) \o urlEncodeFrom(s, i + 1)
            ELSE IF cp \div 32 = 6              \* length = 2
            THEN EscapeRun(s, i, 2) \o urlEncodeFrom(s, i + 2)
            ELSE IF cp \div 16 = 14             \* length = 3
            THEN EscapeRun(s, i, 3) \o urlEncodeFrom(s, i + 3)
            ELSE IF cp \div 8 = 30              \* length = 4
            THEN EscapeRun(s, i, 4) \o urlEncodeFrom(s, i + 4)
            ELSE urlEncodeFrom(s, i + 1)

urlEncode(s) == urlEncodeFrom(s, 1)

\* the bytes the strings are made of: 'A', '-', ' ', a continuation byte, the
\* lead bytes of sequences of 2, 3 and 4 bytes, and a byte that starts nothing
EncodeAlphabet == {65, 45, 32, 128, 195, 226, 240, 248}

Strs == UNION {[1..n -> EncodeAlphabet] : n \in 0..MaxStrLen}

InitEncode ==
    /\ pc = "urlEncode"
    /\ str \in Strs
    /\ url = <<>>
    /\ timeout = -1
    /\ request = GetRequest
    /\ platform = "posix"
    /\ Idle

UrlEncode ==
    /\ pc = "urlEncode"
    /\ encoded' = urlEncode(str)
    /\ pc' = "encoded"
    /\ UNCHANGED <<str, socketVars, imageVars, moveVars, urlVars, timeout, now, stopTime, blockedTime, endpoint,
                   openFds, socketsOpened, netOps, connectResult, lastWait,
                   request, requestData, remaining, wire, scenario, stream,
                   size, parserVars, error>>

NextEncode == UrlEncode

SpecEncode == InitEncode /\ [][NextEncode]_vars

\* a request with a method, two header lines and a body of ten bytes, some of
\* them CR and LF
PostRequest ==
    [method |-> <<"P", "O", "S", "T">>,
     headers |-> <<(<<"A", ":", "1">>), (<<"B", ":", " ", "2">>)>>,
     body |-> <<"a", "=", "1", "\r", "\n", "b", "=", "2", "\r", "\n">>]

SentRequests == {GetRequest, PostRequest}

SentUrls == MainUrls \cup {ExampleUrl}

InitRequest ==
    /\ pc = "new"
    /\ str = <<>>
    /\ url \in SentUrls
    /\ timeout \in -1..MaxTimeout
    /\ request \in SentRequests
    /\ platform = "posix"
    /\ Idle

\* the call up to the moment the whole request is with the socket
NextRequest == Construct \/ Begin \/ Resolve \/ SocketCtor \/ Connect \/ SendData

SpecRequest == InitRequest /\ [][NextRequest]_vars

engineVars ==
    <<urlVars, timeout, now, stopTime, blockedTime, endpoint, openFds,
      socketsOpened, netOps, connectResult, lastWait, request, requestData,
      remaining, wire, scenario, stream, size, parserVars, error>>

\* a Socket on its own, in either build
InitSocket ==
    /\ pc = "method"
    /\ str = <<>>
    /\ url = <<>>
    /\ timeout = -1
    /\ request = GetRequest
    /\ platform \in {"posix", "win32"}
    /\ Idle

\* the ways the OS may treat one call of a Socket method
Calls(op, finals) ==
    [op : {op}, timeout : {-1, 0, MaxWait}, ev : ReadyEvents,
     interruptedPrimitive : 0..MaxInterrupts, interruptedSelect : 0..MaxInterrupts,
     result : finals, soError : {"none", "pending", "getsockopt_fails"}]

Called(c) ==
    /\ pc = "method"
    /\ call' = c
    /\ callResult' = SocketCall(platform, c)
    /\ pc' = "returned"
    /\ UNCHANGED <<platform, encodeVars, imageVars, moveVars, engineVars>>

\* socket.connect(address, addressSize, timeout)
SocketConnect ==
    \E c \in Calls("connect", {Result(0, "none"), Result(-1, InProgress(platform)),
                               Result(-1, "ECONNREFUSED")}) :
        Called(c)

\* socket.send(buffer, length, timeout)
SocketSend ==
    \E c \in Calls("send", {Result(n, "none") : n \in 1..MaxWrite}
                            \cup {Result(-1, "EPIPE")}) :
        c.soError = "none" /\ Called(c)

\* socket.recv(buffer, length, timeout)
SocketRecv ==
    \E c \in Calls("recv", {Result(n, "none") : n \in 0..MaxRead}
                            \cup {Result(-1, "ECONNRESET")}) :
        c.soError = "none" /\ Called(c)

NextSocket == SocketConnect \/ SocketSend \/ SocketRecv

SpecSocket == InitSocket /\ [][NextSocket]_vars

(***************************************************************************)
(* The onNewFrame callback (lines 21-142 and 151-156).  A frame has one    *)
(* colour: black or not.  Every read inside the buffer made for such a     *)
(* frame returns a pixel processImage has just written, so that "found &&  *)
(* !isBlack" never holds and no scan ends before its loop does.            *)
(***************************************************************************)
\* int safearea = 200
safearea == 200

\* widths and heights of the frames, around 0 and around safearea
FrameSizes == {1, 2, 3, safearea, safearea + 1}

Frames == [width : FrameSizes, height : FrameSizes, black : BOOLEAN]

Faults(op, indices, length) ==
    {[op |-> op, index |-> i] : i \in {j \in indices : j < 0 \/ j >= length}}

\* processImage: idx runs upwards from 0 over three entries for each pixel,
\* so the first entry it writes outside a buffer of this length is the one
\* just past its end
WriteFaults(img, length) ==
    IF 3 * img.height * img.width > length
    THEN {[op |-> "write", index |-> length]}
    ELSE {}

\* the three entries read for the pixel (h, w): 3 * ((h - 1) * wmax + w) + 0, 1, 2
Entries(h, w, wmax) == {3 * ((h - 1) * wmax + w) + c : c \in 0..2}

\* the four scans of processImageForTinyPlatformer, in their order
Scans(img) ==
    LET hmax == img.height
        wmax == img.width
        middle == hmax \div 2
    IN << UNION {Entries(middle, w, wmax) : w \in safearea .. (wmax - 1)},
          UNION {Entries(middle, w, wmax) : w \in 0 .. (wmax - safearea)},
          UNION {Entries(h, w, wmax) :
                     h \in safearea .. (hmax - 1), w \in 0 .. (wmax \div 2)},
          UNION {Entries(h, w, wmax) :
                     h \in 0 .. (hmax - safearea), w \in 0 .. (wmax \div 2)} >>

Read(img) == UNION {Scans(img)[k] : k \in 1..4}

\* the size of the buffer after "if (screen == nullptr) screen = ..."
Allocated(buffer, img) ==
    IF buffer = -1 THEN img.height * img.width * 3 ELSE buffer

InitImage ==
    /\ pc = "capturing"
    /\ str = <<>>
    /\ url = <<>>
    /\ timeout = -1
    /\ request = GetRequest
    /\ platform = "posix"
    /\ Idle

\* onNewFrame: processImage(img), then processImageForTinyPlatformer(img);
\* what follows an access outside the buffer is undefined
NewFrame ==
    /\ pc = "capturing"
    /\ \E img \in Frames :
         LET length == Allocated(screen, img)
             writes == WriteFaults(img, length)
             reads == Faults("read", Read(img), length)
         IN /\ image' = img
            /\ screen' = length
            /\ IF writes # {}
               THEN fault' = CHOOSE f \in writes : \A g \in writes : f.index <= g.index
               ELSE IF reads # {}
               THEN fault' = CHOOSE f \in reads : \A g \in reads : f.index <= g.index
               ELSE fault' = NoFault
            /\ pc' = IF writes # {} \/ reads # {} THEN "undefined" ELSE "capturing"
    /\ UNCHANGED <<platform, encodeVars, call, callResult, moveVars, engineVars>>

NextImage == NewFrame

SpecImage == InitImage /\ [][NextImage]_vars

(***************************************************************************)
(* The special members of Socket (lines 332-388).  A handle is the number  *)
(* of the ::socket call that opened it, so that two openings are told      *)
(* apart even where the OS hands out the same descriptor again.            *)
(***************************************************************************)
\* closeSocket(endpoint), counted
Closed(counts, ep) == [counts EXCEPT ![ep] = @ + 1]

\* "if (endpoint != invalid) closeSocket(endpoint);"
ClosedIfValid(counts, ep) == IF ep # invalid THEN Closed(counts, ep) ELSE counts

\* ~Socket() (lines 370-373)
Socket_destructor(m, this) ==
    [objects |-> [m.objects EXCEPT ![this] = NoObject],
     closeCount |-> ClosedIfValid(m.closeCount, m.objects[this].endpoint)]

\* a move constructor that leaves the source its endpoint
Socket_move_Copies(m, this, other) ==
    [objects |-> [m.objects EXCEPT
                     ![this] = [live |-> TRUE, endpoint |-> m.objects[other].endpoint]],
     closeCount |-> m.closeCount]

\* Socket(Socket&& other) (lines 375-379)
Socket_move(m, this, other) ==
    [objects |-> [m.objects EXCEPT
                     ![this] = [live |-> TRUE, endpoint |-> m.objects[other].endpoint],
                     ![other].endpoint = invalid],
     closeCount |-> m.closeCount]

\* operator=(Socket&& other) (lines 381-388)
Socket_assign(m, this, other) ==
    IF other = this THEN m
    ELSE [objects |-> [m.objects EXCEPT
                          ![this].endpoint = m.objects[other].endpoint,
                          ![other].endpoint = invalid],
          closeCount |-> ClosedIfValid(m.closeCount, m.objects[this].endpoint)]

Members == [objects |-> objects, closeCount |-> closeCount]

SetMembers(m) ==
    /\ objects' = m.objects
    /\ closeCount' = m.closeCount
    /\ UNCHANGED <<pc, platform, encodeVars, call, callResult, imageVars, engineVars>>

InitMoves ==
    /\ pc = "sockets"
    /\ str = <<>>
    /\ url = <<>>
    /\ timeout = -1
    /\ request = GetRequest
    /\ platform = "posix"
    /\ Idle

\* Socket(internetProtocol) (lines 332-368): ::socket may fail, and so may
\* fcntl after it, which closes the new handle before the throw
NewSocket ==
    /\ pc = "sockets"
    /\ Len(closeCount) < MaxHandles
    /\ \E this \in 1..MaxObjects :
       \E result \in {"ok", "socket_fails", "getfl_fails", "setfl_fails"} :
         LET ep == Len(closeCount) + 1
         IN /\ ~objects[this].live
            /\ SetMembers(
                  IF result = "socket_fails" THEN Members
                  ELSE IF result = "ok"
                  THEN [objects |-> [objects EXCEPT
                                        ![this] = [live |-> TRUE, endpoint |-> ep]],
                        closeCount |-> Append(closeCount, 0)]
                  ELSE [objects |-> objects,
                        closeCount |-> Closed(Append(closeCount, 0), ep)])

MoveConstruct ==
    /\ pc = "sockets"
    /\ \E this \in 1..MaxObjects, other \in 1..MaxObjects :
         /\ ~objects[this].live
         /\ objects[other].live
         /\ SetMembers(Socket_move(Members, this, other))

MoveAssign ==
    /\ pc = "sockets"
    /\ \E this \in 1..MaxObjects, other \in 1..MaxObjects :
         /\ objects[this].live
         /\ objects[other].live
         /\ SetMembers(Socket_assign(Members, this, other))

Destroy ==
    /\ pc = "sockets"
    /\ \E this \in 1..MaxObjects :
         /\ objects[this].live
         /\ SetMembers(Socket_destructor(Members, this))

NextMoves == NewSocket \/ MoveConstruct \/ MoveAssign \/ Destroy

SpecMoves == InitMoves /\ [][NextMoves]_vars

FramingUrl == <<"h", "t", "t", "p", ":", "/", "/", "h", "/", "f">>

InitParse ==
    /\ pc = "new"
    /\ str = <<>>
    /\ url = FramingUrl
    /\ timeout \in {-1, MaxTimeout}
    /\ request = GetRequest
    /\ platform = "posix"
    /\ Idle

Next == Construct \/ Begin \/ Resolve \/ SocketCtor \/ Connect \/ SendData \/ Recv

Spec == Init /\ [][Next]_vars

\* the same call, for a path the peer answers with FramingScenarios
SpecParse == InitParse /\ [][Next]_vars

(***************************************************************************)
(* Properties.                                                             *)
(***************************************************************************)
TimedOut == Error("ResponseError", "Request timed out")

StdFds == {0, 1, 2}

\* the bytes of the response delivered by the recv calls so far
Delivered == Take(Wire(scenario), Len(Wire(scenario)) - Len(stream))

\* the bytes of the entity delivered so far
EntityDelivered ==
    IF Len(Delivered) <= Len(scenario.head) THEN 0
    ELSE Len(Delivered) - Len(scenario.head)

\* of the first e bytes of a chunked entity, the number of payload bytes
RECURSIVE PayloadBytes(_, _)
PayloadBytes(chunks, e) ==
    IF chunks = <<>> THEN 0
    ELSE LET c == Len(Head(chunks))
             sizeLine == Len(HexOf(c)) + 2
         IN IF e <= sizeLine THEN 0
            ELSE IF e <= sizeLine + c + 2
            THEN (IF e - sizeLine <= c THEN e - sizeLine ELSE c)
            ELSE c + PayloadBytes(Tail(chunks), e - (sizeLine + c + 2))

\* after the first e bytes of a chunked entity, the payload bytes of the
\* chunk whose size line is complete that are still to come
RECURSIVE Outstanding(_, _)
Outstanding(chunks, e) ==
    IF chunks = <<>> THEN 0
    ELSE LET c == Len(Head(chunks))
             sizeLine == Len(HexOf(c)) + 2
         IN IF e < sizeLine THEN 0
            ELSE IF e <= sizeLine + c THEN c - (e - sizeLine)
            ELSE IF e < sizeLine + c + 2 THEN 0
            ELSE Outstanding(Tail(chunks), e - (sizeLine + c + 2))

\* C1: a response with Content-Length: n that the parser completed has as
\* its body exactly the first n bytes that followed the blank line.
C1_BodyIsFirstContentLengthBytes ==
    (pc = "done" /\ size # 0 /\ contentLengthReceived /\ ~chunkedResponse)
        => response.body = Take(scenario.entity, contentLength)

\* C2: for a chunked response, whatever the split into recv results, the
\* body holds exactly the payload bytes delivered so far, the outstanding
\* count of a partly buffered chunk is kept, and the completed body is the
\* concatenation of the chunk payloads.
C2_ChunkedBodySplitIndependent ==
    (scenario.kind = "chunked" /\ pc \in {"recv", "done", "blocked"})
        => /\ response.body
                = Take(scenario.payload, PayloadBytes(scenario.chunks, EntityDelivered))
           /\ expectedChunkSize = Outstanding(scenario.chunks, EntityDelivered)
           /\ (pc = "done" /\ size # 0) => response.body = Concat(scenario.chunks)

C2_Witness ==
    /\ scenario.kind = "chunked"
    /\ pc = "recv"
    /\ expectedChunkSize = 2
    /\ response.body = <<"W", "i", "k", "i", "p", "e", "d">>

\* C3: a socket operation called with a timeout >= 0 after the deadline has
\* passed, on a socket that is not ready, fails with "Request timed out".
C3_ExpiredDeadlineTimesOut ==
    (timeout >= 0 /\ lastWait.op # "none" /\ lastWait.expired
                  /\ lastWait.socket = "notready")
        => (pc = "failed" /\ error = TimedOut)

\* C4: with a timeout T >= 0 the time spent blocked in readiness waits is at
\* most T ms in total, and no wait is unbounded.
C4_BlockedTimeWithinTimeout ==
    timeout >= 0 => (blockedTime <= timeout /\ pc # "blocked")

\* C5: with a 0 ms timeout, a connect that is in progress on a socket that is
\* not yet writable fails with "Request timed out".
C5_ZeroTimeoutConnectTimesOut ==
    (timeout = 0 /\ connectResult = "inprogress" /\ lastWait.op = "connect"
                 /\ lastWait.socket = "notready")
        => (pc = "failed" /\ error = TimedOut)

\* C6: the call returns a Response after a 0-byte recv only in the
\* read-until-close framing (headers complete, no Content-Length, not chunked).
C6_EarlyCloseIsAnError ==
    (pc = "done" /\ size = 0)
        => (parsedHeaders /\ ~contentLengthReceived /\ ~chunkedResponse)

\* C7: with a scheme other than "http" the call fails with RequestError and
\* performs no network activity at all.
C7_OtherSchemeFailsBeforeNetwork ==
    scheme # HttpScheme
        => /\ netOps = {}
           /\ socketsOpened = 0
           /\ openFds = StdFds
           /\ pc \in {"new", "call", "failed"}
           /\ pc = "failed" => error.type = "RequestError"

C7_Witness ==
    /\ scheme # HttpScheme
    /\ pc = "failed"
    /\ error.type = "RequestError"

\* C8: a call opens at most one socket, and when it has returned or failed
\* no descriptor it opened is still open.
C8_SocketAlwaysClosed ==
    /\ socketsOpened <= 1
    /\ pc \in {"done", "failed"} => openFds = StdFds

C8_Witness ==
    /\ pc = "failed"
    /\ socketsOpened = 1
    /\ error = Error("ResponseError", "Invalid header")
    /\ openFds = StdFds

\* C9: connect precedes every send, the whole request is written before the
\* first recv, and nothing is sent after a recv.
C9_ConnectSendRecvOrder ==
    /\ [](/\ "send" \in netOps
              => ("connect" \in netOps /\ connectResult \in {"ok", "inprogress"})
          /\ "recv" \in netOps => (remaining = 0 /\ wire = requestData))
    /\ [][("recv" \in netOps) => (wire' = wire /\ remaining' = remaining)]_vars

C9_Witness ==
    /\ "recv" \in netOps
    /\ pc = "recv"
    /\ wire = requestData
    /\ Len(wire) > 0

\* C10: as long as the CRLF that ends the status line has not arrived,
\* status is 0 and nothing is consumed; once it has arrived the status is the
\* one the status line carries, wherever the recv results were split.
C10_StatusLineSplitIndependent ==
    (scenario # NoScenario /\ error.type # "invalid_argument")
        => IF Len(Delivered) < Len(scenario.statusLine) + 2
           THEN /\ response.status = 0
                /\ ~parsedStatusLine
                /\ responseData = Delivered
           ELSE /\ parsedStatusLine
                /\ response.status = scenario.status

C10_Witness ==
    /\ scenario # NoScenario
    /\ Delivered = scenario.statusLine \o <<"\r">>
    /\ responseData = Delivered
    /\ ~parsedStatusLine

\* the number of bytes of the response up to and including the CRLF of its
\* k-th header line
HeaderLineEnd(sc, k) ==
    Len(sc.statusLine) + 2 + Len(Concat([j \in 1..k |-> Line(sc.headers[j])]))

UnsupportedEncoding == Error("ResponseError", "Unsupported transfer encoding")

\* C11: once a Transfer-Encoding header whose trimmed value is not "chunked"
\* has been received the call has failed with a ResponseError; no Response is
\* returned and no byte has been put into a body.
C11_UnsupportedTransferEncodingFails ==
    (scenario.kind = "gzip" /\ Len(Delivered) >= HeaderLineEnd(scenario, 1))
        => /\ pc = "failed"
           /\ error = UnsupportedEncoding
           /\ response.body = <<>>

C11_Witness ==
    /\ scenario.kind = "gzip"
    /\ pc = "failed"
    /\ error = UnsupportedEncoding
    /\ response.headers = <<TransferEncodingGzip>>

\* what follows "://" in the URL, or the whole URL without "://"
UrlRemainder(u) ==
    LET schemeEnd == FindString(u, SchemeSeparator)
    IN IF schemeEnd = 0 THEN u ELSE Drop(u, schemeEnd + 2)

\* the authority of the URL: the remainder up to its first '/' or '#'
Authority(u) ==
    LET r == UrlRemainder(u)
        stops == {i \in 1..Len(r) : r[i] \in {"/", "#"}}
    IN IF stops = {} THEN r ELSE Take(r, Min(stops) - 1)

Max(S) == CHOOSE m \in S : \A n \in S : n <= m

\* C12: the authority is split at its last ':' into domain and port; without
\* a ':' the port is "80" and the domain is the whole authority.
C12_PortAfterLastColon ==
    pc # "new"
        => LET a == Authority(url)
               colons == {i \in 1..Len(a) : a[i] = ":"}
           IN IF colons = {}
              THEN port = <<"8", "0">> /\ domain = a
              ELSE port = Drop(a, Max(colons)) /\ domain = Take(a, Max(colons) - 1)

\* C13: the path starts with '/', has no '#', and is the remainder from its
\* first '/' up to its first '#', or "/" when there is no '/' before the '#'.
C13_PathShape ==
    pc # "new"
        => LET r == UrlRemainder(url)
               hashes == {i \in 1..Len(r) : r[i] = "#"}
               end == IF hashes = {} THEN Len(r) ELSE Min(hashes) - 1
               slashes == {i \in 1..end : r[i] = "/"}
           IN /\ Len(path) >= 1
              /\ path[1] = "/"
              /\ \A i \in 1..Len(path) : path[i] # "#"
              /\ path = IF slashes = {} THEN <<"/">> ELSE SubSeq(r, Min(slashes), end)

C13_Witness ==
    /\ pc = "call"
    /\ url = ExampleUrl
    /\ domain = <<"h", "o", "s", "t">>
    /\ path = <<"/", "a", "/", "b", "?", "x">>

\* the value of a hexadecimal digit given by its character code
HexValue(code) == IF code <= 57 THEN code - 48 ELSE code - 55

\* percent-decoding: "%XY" stands for the byte XY, any other byte for itself
RECURSIVE PercentDecode(_)
PercentDecode(s) ==
    IF s = <<>> THEN <<>>
    ELSE IF s[1] = 37 /\ Len(s) >= 3
    THEN <<HexValue(s[2]) * 16 + HexValue(s[3])>> \o PercentDecode(Drop(s, 3))
    ELSE <<s[1]>> \o PercentDecode(Drop(s, 1))

\* A-Z a-z 0-9 - . _
Unreserved == (48..57) \cup (65..90) \cup (97..122) \cup {45, 46, 95}

\* C14: percent-decoding urlEncode(s) gives s back, for every byte sequence s.
C14_EncodeDecodeRoundTrip ==
    pc = "encoded" => PercentDecode(encoded) = str

\* C15: no escape in the output of urlEncode stands for an unreserved
\* character, and every unreserved byte of the input is in the output as it is.
C15_UnreservedNeverEncoded ==
    pc = "encoded"
        => /\ \A i \in 1..(Len(encoded) - 2) :
                encoded[i] = 37
                    => HexValue(encoded[i + 1]) * 16 + HexValue(encoded[i + 2])
                           \notin Unreserved
           /\ Cardinality({i \in 1..Len(str) : str[i] \in Unreserved})
                  = Cardinality({i \in 1..Len(encoded) : encoded[i] \in Unreserved
                                     /\ (i > 1 => encoded[i - 1] # 37)
                                     /\ (i > 2 => encoded[i - 2] # 37)})

\* C16: a call that has received a status line without a second token never
\* returns a Response (whose status would still be 0); it can only fail.
C16_StatusLineWithoutCodeFails ==
    (/\ scenario # NoScenario
     /\ Len(Tokenize(scenario.statusLine, 1)) < 2
     /\ Len(Delivered) >= Len(scenario.statusLine) + 2)
        => pc # "done"

InvalidHeader == Error("ResponseError", "Invalid header")

\* C17: once a non-empty line without ':' has been received after the status
\* line and before the blank line, the call has failed with
\* ResponseError "Invalid header"; no Response is returned.
C17_HeaderWithoutColonFails ==
    \A k \in 1..Len(scenario.headers) :
        (/\ \A c \in 1..Len(scenario.headers[k]) : scenario.headers[k][c] # ":"
         /\ Len(Delivered) >= HeaderLineEnd(scenario, k))
            => (pc = "failed" /\ error = InvalidHeader)

C17_Witness ==
    /\ scenario.kind = "bad"
    /\ Len(Delivered) = HeaderLineEnd(scenario, 1)
    /\ pc = "failed"
    /\ error = InvalidHeader

\* C18: the header list is, in order and verbatim, the header lines received
\* so far with their CRLF; when the header section is complete it is the whole
\* list of header lines of the response, duplicates and interpreted headers
\* included, without the status line and the blank line.
C18_HeadersVerbatimInOrder ==
    scenario # NoScenario
        => /\ response.headers
                = Take(scenario.headers,
                       Cardinality({k \in 1..Len(scenario.headers) :
                                       HeaderLineEnd(scenario, k) <= Len(Delivered)}))
           /\ parsedHeaders => response.headers = scenario.headers

C18_Witness ==
    /\ scenario.kind = "duplicate"
    /\ pc = "done"
    /\ size # 0
    /\ response.headers = <<(<<"A", ":", "1">>), (<<"A", ":", "1">>), ContentLength0>>

IsPrefix(a, b) == Len(a) <= Len(b) /\ a = Take(b, Len(a))

\* the decimal numeral of a number below 100
Decimal(n) ==
    LET digit(d) == <<"0", "1", "2", "3", "4", "5", "6", "7", "8", "9">>[d + 1]
    IN IF n < 10 THEN <<digit(n)>> ELSE <<digit(n \div 10), digit(n % 10)>>

RequestOnTheWire ==
    request.method \o <<" ">> \o path
    \o <<" ", "H", "T", "T", "P", "/", "1", ".", "1", "\r", "\n">>
    \o Concat([k \in 1..Len(request.headers) |->
                   request.headers[k] \o <<"\r", "\n">>])
    \o <<"H", "o", "s", "t", ":", " ">> \o domain \o <<"\r", "\n">>
    \o <<"C", "o", "n", "t", "e", "n", "t", "-", "L", "e", "n", "g", "t", "h",
         ":", " ">> \o Decimal(Len(request.body)) \o <<"\r", "\n">>
    \o <<"\r", "\n">>
    \o request.body

\* C19: the bytes handed to the socket are a prefix of, and once the send loop
\* is over exactly, the request line, the caller's header lines in order, the
\* Host line, the Content-Length line with the body size in decimal, an empty
\* line and the body unchanged.
C19_SentBytesAreTheSerializedRequest ==
    /\ IsPrefix(wire, RequestOnTheWire)
    /\ pc = "recv" => wire = RequestOnTheWire

C19_Witness ==
    /\ pc = "recv"
    /\ request = PostRequest
    /\ path = <<"/", "a", "/", "b", "?", "x">>
    /\ Len(request.body) >= 10
    /\ wire = RequestOnTheWire

\* C20: the timeout argument of the socket operation about to be called is -1
\* exactly when the caller's timeout is negative, and otherwise the
\* non-negative number max(0, stopTime - now).
C20_TimeoutArgumentIsSentinelOrClamped ==
    pc \in {"connect", "send", "recv"}
        => LET t == TimeoutArgument(timeout, stopTime, now)
           IN IF timeout < 0
              THEN t = -1
              ELSE t >= 0 /\ t = Max({0, stopTime - now})

\* C21: whatever the sizes of the partial writes, the bytes written so far are
\* the first bytes of the serialized request, each once and in order, the
\* loop goes on exactly while bytes remain, and it ends with the whole
\* request written.
C21_SendLoopDeliversEachByteOnce ==
    /\ pc = "send" => /\ remaining > 0
                      /\ remaining + Len(wire) = Len(requestData)
                      /\ wire = Take(requestData, Len(wire))
    /\ pc = "recv" => /\ remaining = 0
                      /\ wire = requestData

\* two partial writes, of 1 and 2 bytes in either order, and more to send
C21_Witness ==
    /\ pc = "send"
    /\ wire = Take(requestData, 3)
    /\ remaining = Len(requestData) - 3
    /\ remaining > MaxWrite

\* the body has reached the length the Content-Length header announced
LengthReached ==
    /\ parsedHeaders
    /\ ~chunkedResponse
    /\ contentLengthReceived
    /\ Len(response.body) >= contentLength

\* the size line of the last chunk, "0" CRLF, has been received
LastChunkLineRead ==
    /\ scenario.kind = "chunked"
    /\ EntityDelivered >= Len(scenario.entity) - Len(crlf)

\* C22: as soon as the response is complete (the body has the announced
\* length, also when that length is 0, or the zero-size chunk line has been
\* read) the call has returned the Response; it is not waiting for a recv.
C22_CompleteResponseIsReturned ==
    (LengthReached \/ LastChunkLineRead) => (pc = "done" /\ error = NoError)

\* Content-Length: 0, complete in the iteration that read the blank line
C22_Witness ==
    /\ LengthReached
    /\ contentLength = 0
    /\ Len(Delivered) = Len(scenario.head)
    /\ size # 0
    /\ pc = "done"

\* the header section ended without Content-Length and without
\* Transfer-Encoding: chunked
UntilClose == parsedHeaders /\ ~contentLengthReceived /\ ~chunkedResponse

\* C23: without Content-Length and chunked encoding the body is at every
\* moment all the bytes received after the blank line, in order, and the call
\* returns only from a recv of 0 bytes.
C23_BodyUntilClose ==
    UntilClose
        => /\ response.body = Take(scenario.entity, EntityDelivered)
           /\ pc = "done" => size = 0

C23_Witness ==
    /\ UntilClose
    /\ pc = "done"
    /\ size = 0
    /\ scenario.entity # <<>>
    /\ response.body = scenario.entity

\* C24: a chunked response in which the payload of a chunk is followed by
\* two bytes other than CR LF is never parsed to its end as if it were well
\* framed: the call does not complete it and return it.
C24_ChunkMustEndWithCrlf ==
    scenario.kind = "badframing" => ~(pc = "done" /\ size # 0)

\* C25: when Content-Length and Transfer-Encoding: chunked are both received,
\* in either order, the body is the chunk payload delivered so far and
\* nothing else, and the call completes the response exactly when the
\* zero-size chunk line has been read, with the whole payload as body.
C25_ChunkedOverridesContentLength ==
    (scenario.kind = "both" /\ pc \in {"recv", "done", "blocked"})
        => /\ response.body
                = Take(scenario.payload, PayloadBytes(scenario.chunks, EntityDelivered))
           /\ (pc = "done" /\ size # 0)
                => /\ EntityDelivered >= Len(scenario.entity) - Len(crlf)
                   /\ response.body = scenario.payload

C25_Witness ==
    /\ scenario.headers = <<ContentLength1, TransferEncodingChunked>>
    /\ contentLengthReceived
    /\ contentLength = 1
    /\ chunkedResponse
    /\ pc = "done"
    /\ size # 0
    /\ response.body = <<"a", "b", "c">>

\* C26: the parser only moves forward: parsedStatusLine and parsedHeaders
\* never go back to false, and parsedHeaders is never set while the status
\* line is unparsed, since the first line received, empty or not, is the
\* status line.
C26_PhasesOnlyAdvance ==
    [][/\ parsedStatusLine => parsedStatusLine'
       /\ parsedHeaders => parsedHeaders'
       /\ parsedHeaders' => parsedStatusLine']_vars

\* the number of bytes of a response up to and including the CRLF of the
\* line that carries its invalid number
BadNumberEnd(sc) ==
    IF sc = BadStatusScenario THEN Len(sc.statusLine) + Len(crlf)
    ELSE IF sc = BadLengthScenario THEN HeaderLineEnd(sc, 1)
    ELSE Len(sc.head) + SearchCrlf(sc.entity) + 1

\* C29: once the line with a non-numeric status token, an invalid
\* Content-Length value or an invalid chunk size has been received, the call
\* has failed with an error of the kind used for malformed responses
\* (ResponseError, as for a header line without ':').
C29_InvalidNumberIsMalformedResponse ==
    (scenario.kind = "badnumber" /\ Len(Delivered) >= BadNumberEnd(scenario))
        => (pc = "failed" /\ error.type = "ResponseError")

\* the same call with no interruption
Uninterrupted(c) == [c EXCEPT !.interruptedPrimitive = 0, !.interruptedSelect = 0]

ConnectFailed == Error("system_error", "Failed to connect")

\* C27: when ::connect reports that the connection is in progress, in either
\* build, Socket::connect waits for writability: if the socket gets writable
\* within the timeout it returns when no socket error is pending and fails
\* with "Failed to connect" when one is; if it does not, the failure is the
\* timeout of the wait and no failure of connect.
C27_ConnectInProgressWaits ==
    (/\ call.op = "connect"
     /\ call.result = Result(-1, InProgress(platform))
     /\ call.ev.kind # "error")
        => LET ready == /\ call.ev.kind = "ready"
                        /\ call.timeout >= 0 => call.ev.after <= call.timeout
           IN /\ (ready /\ call.soError = "none") => callResult.status = "ok"
              /\ (ready /\ call.soError = "pending")
                    => (callResult.status = "throw" /\ callResult.error = ConnectFailed)
              /\ ~ready => callResult.error # ConnectFailed

C30_BufferIndicesInRange == fault = NoFault /\ pc # "undefined"

\* the live Socket objects whose endpoint is the handle h
Holders(objs, h) == {o \in 1..MaxObjects : objs[o].live /\ objs[o].endpoint = h}

Live(objs) == {o \in 1..MaxObjects : objs[o].live}

\* no handle is closed twice, a handle that is open belongs to exactly one
\* live Socket and a handle that was closed to none
HandlesOwnedOnce ==
    \A h \in 1..Len(closeCount) :
        /\ closeCount[h] <= 1
        /\ Cardinality(Holders(objects, h)) = 1 - closeCount[h]

\* a move construction: the new object takes over the endpoint of another,
\* which is left with the invalid handle, and nothing is closed
IsMoveConstruction ==
    \E this \in Live(objects') \ Live(objects), other \in Live(objects) :
        /\ objects'[this].endpoint = objects[other].endpoint
        /\ objects'[other].endpoint = invalid
        /\ closeCount' = closeCount

\* a move assignment between two objects: the target takes over the endpoint
\* of the source, which is left with the invalid handle, and the handle the
\* target held, if it held one, is closed
IsMoveAssignment ==
    \E this \in Live(objects) : \E other \in Live(objects) \ {this} :
        /\ objects'[this].endpoint = objects[other].endpoint
        /\ objects'[other].endpoint = invalid
        /\ closeCount' = ClosedIfValid(closeCount, objects[this].endpoint)

\* C31: over every sequence of constructions, move constructions, move
\* assignments and destructions no handle is closed twice, every open handle
\* is held by exactly one live Socket and every closed handle by none, so
\* that all handles are closed exactly once when no Socket is left; a step
\* that adds an object without opening a handle is a move that leaves its
\* source invalid and closes nothing, and a step that changes objects without
\* adding or removing one is a move assignment that closes what its target
\* held.
C31_HandlesClosedExactlyOnce ==
    /\ []HandlesOwnedOnce
    /\ [][/\ (Live(objects') # Live(objects) /\ Live(objects) \subseteq Live(objects')
              /\ Len(closeCount') = Len(closeCount))
                => IsMoveConstruction
          /\ (Live(objects') = Live(objects) /\ objects' # objects)
                => IsMoveAssignment]_vars

\* a Socket that was moved from is alive with the invalid handle, another
\* holds an open handle, and every other handle opened was closed once
C31_Witness ==
    /\ Len(closeCount) = MaxHandles
    /\ \E o \in Live(objects) : objects[o].endpoint = invalid
    /\ \E o \in Live(objects) :
         /\ objects[o].endpoint # invalid
         /\ \A h \in 1..MaxHandles :
              closeCount[h] = IF h = objects[o].endpoint THEN 0 ELSE 1

====
